---- MODULE Spec2Model ----
(***************************************************************************)
(* Marker / pose model of morphing_birds: SkeletonDefinition (name to      *)
(* index resolution) and Animal3D (three coordinate buffers, the update /  *)
(* reset / restore lifecycle and the homogeneous pose transform).          *)
(*                                                                         *)
(* Conventions.                                                            *)
(*  - A Python list is a sequence; the indices the code computes are kept  *)
(*    0-based, so element i of a list l is l[i + 1].                       *)
(*  - A marker name is the sequence of its characters.                     *)
(*  - A numpy array is [shape, data] with data in row-major order.         *)
(*  - numpy arrays are objects: the three buffers are references into      *)
(*    heap, so that an assignment without .copy() aliases two buffers.     *)
(*  - Coordinates are integers and angles are multiples of 90 degrees,     *)
(*    where sine and cosine are taken as exactly -1, 0 or 1.               *)
(*  - A method is an operator from the instance (a record of its fields)   *)
(*    to [self, exc]: the instance afterwards and the exception raised.    *)
(***************************************************************************)
EXTENDS Integers, Sequences, FiniteSets, TLC

VARIABLES
    csv_marker_names,       \* Spider3D.csv_marker_names
    marker_index,           \* Animal3D.marker_index
    fixed_marker_index,     \* Animal3D.fixed_marker_index
    right_marker_index,     \* Animal3D.right_marker_index
    left_marker_index,      \* Animal3D.left_marker_index
    polygons,               \* Animal3D.polygons (body_section_indices holds the same dict)
    heap,                   \* the ndarray objects the buffers refer to
    default_shape,          \* Animal3D.default_shape (reference into heap)
    current_shape,          \* Animal3D.current_shape (reference into heap)
    untransformed_shape,    \* Animal3D.untransformed_shape (reference into heap)
    transformation_matrix,  \* Animal3D.transformation_matrix
    origin,                 \* Animal3D.origin
    last,                   \* the call that produced this state: op, arguments, exception
    resolved,               \* result of the last stand-alone get_marker_indices call
    formatted,              \* argument and result of the last stand-alone mirroring call
    episode                 \* position in a fixed call sequence, and the poses it recorded

indexVars == <<csv_marker_names, marker_index, fixed_marker_index,
               right_marker_index, left_marker_index, polygons>>
shapeVars == <<heap, default_shape, current_shape, untransformed_shape,
               transformation_matrix, origin>>
vars == <<csv_marker_names, marker_index, fixed_marker_index, right_marker_index,
          left_marker_index, polygons, heap, default_shape, current_shape,
          untransformed_shape, transformation_matrix, origin, last,
          resolved, formatted, episode>>

----------------------------------------------------------------------------
(* Bounds of the model *)

\* user poses are numbered 0..MaxPose
MaxPose == 1
\* horizontal and vertical offsets range over 0..MaxDist
MaxDist == 1
\* a call whose result would hold a coordinate beyond MaxAbs is not taken
MaxAbs == 2
\* frame counts of user arrays range over 1..MaxFrames
MaxFrames == 2
\* stand-alone resolutions request at most MaxSubset names
MaxSubset == 2

\* pitch and yaw angles, in degrees
PitchDegrees == {0, 90, 180}
YawDegrees == {0, 90}

----------------------------------------------------------------------------
(* Generic helpers *)

Range(s) == {s[i] : i \in 1..Len(s)}

Abs(x) == IF x < 0 THEN -x ELSE x

RECURSIVE Prod(_)
Prod(s) == IF Len(s) = 0 THEN 1 ELSE Head(s) * Prod(Tail(s))

\* a function on 1..n as a tuple (evaluated once, element by element)
Tuple(f) == f \o <<>>

\* all sequences over S of length 0..n
SeqUpTo(S, n) == UNION {[1..k -> S] : k \in 0..n}

\* all orderings of the elements of a sequence without repetition
Orderings(s) ==
    {p \in [1..Len(s) -> Range(s)] : \A i, j \in 1..Len(s) : i # j => p[i] # p[j]}

\* Python: pat in name, for strings
Contains(name, pat) ==
    \E i \in 1..(Len(name) - Len(pat) + 1) : SubSeq(name, i, i + Len(pat) - 1) = pat

----------------------------------------------------------------------------
(* The skeleton definition: a hawk reduced to two marker pairs and one     *)
(* fixed marker, names as in hawk_skeleton_definition.py                   *)

left_wingtip  == <<"l","e","f","t","_","w","i","n","g","t","i","p">>
right_wingtip == <<"r","i","g","h","t","_","w","i","n","g","t","i","p">>
left_tailtip  == <<"l","e","f","t","_","t","a","i","l","t","i","p">>
right_tailtip == <<"r","i","g","h","t","_","t","a","i","l","t","i","p">>
hood          == <<"h","o","o","d">>
tailpack      == <<"t","a","i","l","p","a","c","k">>

marker_names == <<left_wingtip, right_wingtip, left_tailtip, right_tailtip>>

fixed_marker_names == <<hood>>

\* the body sections, in the order of the dict, and their marker names
SectionNames == <<"left_handwing", "head", "tail">>

body_sections ==
    [section \in Range(SectionNames) |->
        CASE section = "left_handwing" -> <<left_wingtip>>
          [] section = "head"          -> <<hood>>
          [] section = "tail"          -> <<right_tailtip, left_tailtip>>]

get_all_marker_names == marker_names \o fixed_marker_names

IsRight(name) == Contains(name, <<"r","i","g","h","t">>)
IsLeft(name) == Contains(name, <<"l","e","f","t">>)

get_right_marker_names == SelectSeq(marker_names, IsRight)

get_left_marker_names == SelectSeq(marker_names, IsLeft)

\* the hawk skeleton definition as an object
HawkSkeletonDefinition ==
    [marker_names           |-> marker_names,
     fixed_marker_names     |-> fixed_marker_names,
     get_right_marker_names |-> get_right_marker_names,
     get_left_marker_names  |-> get_left_marker_names]

\* the spider skeleton definition, reduced to the first claw of a right leg
\* and of a left leg, one body marker and the fixed marker, names as in
\* spider_skeleton_definition.py
claw1   == <<"c","l","a","w","1">>
claw5   == <<"c","l","a","w","5">>
clypeus == <<"c","l","y","p","e","u","s">>
center  == <<"c","e","n","t","e","r">>

\* Python: name.endswith(suffixes), for one-character suffixes
EndsWith(name, suffixes) == Len(name) > 0 /\ name[Len(name)] \in suffixes

spider_marker_names == <<claw1, claw5>> \o <<clypeus>>

SpiderSkeletonDefinition ==
    [marker_names           |-> spider_marker_names,
     fixed_marker_names     |-> <<center>>,
     get_right_marker_names |->
         SelectSeq(spider_marker_names,
                   LAMBDA name : EndsWith(name, {"1", "2", "3", "4"})),
     get_left_marker_names  |->
         SelectSeq(spider_marker_names,
                   LAMBDA name : EndsWith(name, {"5", "6", "7", "8"}))]

\* Python: l.index(x), defined when x is in l
ListIndex(l, x) == (CHOOSE i \in 1..Len(l) : l[i] = x /\ \A j \in 1..(i - 1) : l[j] # x) - 1

\* variant: a name that is not a column is skipped
get_marker_indices_skip_missing(marker_subset, csv_names) ==
    LET found == SelectSeq(marker_subset, LAMBDA name : name \in Range(csv_names))
    IN  [exc |-> "none",
         val |-> Tuple([k \in 1..Len(found) |-> ListIndex(csv_names, found[k])])]

\* variant: the indices are collected while scanning the columns, so they
\* come out in column order
get_marker_indices_column_order(marker_subset, csv_names) ==
    IF \E k \in 1..Len(marker_subset) : marker_subset[k] \notin Range(csv_names)
    THEN [exc |-> "ValueError",
          val |-> marker_subset[CHOOSE k \in 1..Len(marker_subset) :
                                   /\ marker_subset[k] \notin Range(csv_names)
                                   /\ \A j \in 1..(k - 1) :
                                          marker_subset[j] \in Range(csv_names)]]
    ELSE [exc |-> "none",
          val |-> SelectSeq(Tuple([i \in 1..Len(csv_names) |-> i - 1]),
                            LAMBDA i : csv_names[i + 1] \in Range(marker_subset))]

RECURSIVE get_marker_indices(_, _)
get_marker_indices(marker_subset, csv_names) ==
    IF Len(marker_subset) = 0 THEN [exc |-> "none", val |-> <<>>]
    ELSE IF Head(marker_subset) \in Range(csv_names)
         THEN LET rest == get_marker_indices(Tail(marker_subset), csv_names)
              IN  IF rest.exc = "none"
                  THEN [exc |-> "none",
                        val |-> <<ListIndex(csv_names, Head(marker_subset))>> \o rest.val]
                  ELSE rest
         ELSE [exc |-> "ValueError", val |-> Head(marker_subset)]

\* the sections are resolved in dict order; the first failure ends the loop
RECURSIVE SectionIndices(_, _)
SectionIndices(sections, csv_names) ==
    IF Len(sections) = 0 THEN [exc |-> "none", val |-> <<>>]
    ELSE LET first == get_marker_indices(body_sections[Head(sections)], csv_names)
             rest == SectionIndices(Tail(sections), csv_names)
         IN  IF first.exc # "none" THEN first
             ELSE IF rest.exc # "none" THEN rest
             ELSE [exc |-> "none", val |-> <<first.val>> \o rest.val]

get_body_section_indices(csv_names) ==
    LET r == SectionIndices(SectionNames, csv_names)
    IN  IF r.exc # "none" THEN r
        ELSE [exc |-> "none",
              val |-> [section \in Range(SectionNames) |->
                          r.val[CHOOSE i \in 1..Len(SectionNames) :
                                    SectionNames[i] = section]]]

----------------------------------------------------------------------------
(* numpy arrays *)

None == [none |-> TRUE]

\* the content of a heap cell no buffer refers to
NoArray == [shape |-> <<0>>, data |-> <<>>]

\* ndarray.size
Size(a) == Prod(a.shape)

\* ndarray.shape[-1]
LastDim(a) == a.shape[Len(a.shape)]

\* an array of shape (1, n, 3) from a sequence of n points
FromPoints(pts) ==
    [shape |-> <<1, Len(pts), 3>>,
     data  |-> Tuple([i \in 1..(3 * Len(pts)) |->
                        pts[((i - 1) \div 3) + 1][((i - 1) % 3) + 1]])]

\* a[f, k, :] of an array of shape (frames, markers, 3)
PointAt(a, f, k) ==
    LET b == (f * a.shape[2] + k) * 3
    IN  <<a.data[b + 1], a.data[b + 2], a.data[b + 3]>>

\* the points of frame f of an array of shape (frames, markers, 3)
FramePoints(a, f) == Tuple([k \in 1..a.shape[2] |-> PointAt(a, f, k - 1)])

\* a[:, index, :] for a list of marker positions: a new array
Gather(a, index) ==
    [shape |-> <<a.shape[1], Len(index), 3>>,
     data  |-> Tuple([i \in 1..(a.shape[1] * Len(index) * 3) |->
                  LET f == (i - 1) \div (Len(index) * 3)
                      k == ((i - 1) % (Len(index) * 3)) \div 3
                      c == (i - 1) % 3
                  IN  a.data[(f * a.shape[2] + index[k + 1]) * 3 + c + 1]])]

\* the shape of a value padded with leading 1s to three dimensions
Pad3(shape) ==
    IF Len(shape) = 1 THEN <<1, 1>> \o shape
    ELSE IF Len(shape) = 2 THEN <<1>> \o shape
    ELSE shape

\* numpy broadcasting of a value of at most three dimensions to a target shape
Broadcastable(vshape, tshape) ==
    \A d \in 1..3 : Pad3(vshape)[d] = tshape[d] \/ Pad3(vshape)[d] = 1

\* a[:, index, :] = v : the array a after the in-place write, or the error
\* numpy raises before writing: IndexError when a has fewer than three
\* dimensions, ValueError when v cannot be broadcast
SetItem(a, index, v) ==
    LET tshape == <<a.shape[1], Len(index), 3>>
        vs == Pad3(v.shape)
        elem(f, k, c) ==
            v.data[((IF vs[1] = 1 THEN 0 ELSE f) * vs[2]
                    + (IF vs[2] = 1 THEN 0 ELSE k)) * vs[3]
                   + (IF vs[3] = 1 THEN 0 ELSE c) + 1]
        pos(k) == CHOOSE j \in 1..Len(index) :
                      index[j] = k /\ \A j2 \in (j + 1)..Len(index) : index[j2] # k
    IN  IF Len(a.shape) # 3 THEN [exc |-> "IndexError", val |-> a]
        ELSE IF ~Broadcastable(v.shape, tshape)
        THEN [exc |-> "ValueError", val |-> a]
        ELSE [exc |-> "none",
              val |-> [a EXCEPT !.data =
                         Tuple([i \in 1..Len(a.data) |->
                            LET f == (i - 1) \div (a.shape[2] * 3)
                                k == ((i - 1) % (a.shape[2] * 3)) \div 3
                                c == (i - 1) % 3
                            IN  IF k \in Range(index)
                                THEN elem(f, pos(k) - 1, c)
                                ELSE a.data[i]])]]

----------------------------------------------------------------------------
(* 4x4 homogeneous matrices *)

Identity4 == <<<<1, 0, 0, 0>>, <<0, 1, 0, 0>>, <<0, 0, 1, 0>>, <<0, 0, 0, 1>>>>

\* A @ B
MatMul(A, B) ==
    LET row(i) == Tuple([j \in 1..4 |->
            A[i][1] * B[1][j] + A[i][2] * B[2][j] + A[i][3] * B[3][j] + A[i][4] * B[4][j]])
    IN  <<row(1), row(2), row(3), row(4)>>

\* np.cos(np.deg2rad(degrees)) at a multiple of 90 degrees
Cos(degrees) ==
    LET d == degrees % 360
    IN  IF d = 0 THEN 1 ELSE IF d = 180 THEN -1 ELSE 0

\* np.sin(np.deg2rad(degrees)) at a multiple of 90 degrees
Sin(degrees) ==
    LET d == degrees % 360
    IN  IF d = 90 THEN 1 ELSE IF d = 270 THEN -1 ELSE 0

\* the point (M . (p, 1))[:3]
TransformPoint(M, p) ==
    LET q(i) == M[i][1] * p[1] + M[i][2] * p[2] + M[i][3] * p[3] + M[i][4]
    IN  <<q(1), q(2), q(3)>>
----------------------------------------------------------------------------
(* The instance and its objects *)

\* object identities; three buffers and one array under construction
Ids == 1..4

\* the Animal3D instance as a record of its fields
Self ==
    [csv_marker_names      |-> csv_marker_names,
     marker_index          |-> marker_index,
     fixed_marker_index    |-> fixed_marker_index,
     right_marker_index    |-> right_marker_index,
     left_marker_index     |-> left_marker_index,
     polygons              |-> polygons,
     heap                  |-> heap,
     default_shape         |-> default_shape,
     current_shape         |-> current_shape,
     untransformed_shape   |-> untransformed_shape,
     transformation_matrix |-> transformation_matrix,
     origin                |-> origin]

Ok(self) == [self |-> self, exc |-> "none"]

Raise(self, e) == [self |-> self, exc |-> e]

\* the objects some attribute refers to
Live(self) == {self.default_shape, self.current_shape, self.untransformed_shape} \ {0}

\* the identity of a newly created array
NewRef(self) == CHOOSE id \in Ids \ Live(self) : \A other \in Ids \ Live(self) : id <= other

\* object identities are renamed in order of first use by default_shape,
\* untransformed_shape, current_shape, and unreferenced objects are dropped
Canon(self) ==
    LET d == 1
        u == IF self.untransformed_shape = self.default_shape THEN d ELSE 2
        c == IF self.current_shape = self.default_shape THEN d
             ELSE IF self.current_shape = self.untransformed_shape THEN u
             ELSE u + 1
    IN  [self EXCEPT
            !.heap = [id \in Ids |->
                        IF id = d THEN self.heap[self.default_shape]
                        ELSE IF id = u THEN self.heap[self.untransformed_shape]
                        ELSE IF id = c THEN self.heap[self.current_shape]
                        ELSE NoArray],
            !.default_shape = d,
            !.untransformed_shape = u,
            !.current_shape = c]

\* the arrays behind the three attributes
DefaultShape == heap[default_shape]
CurrentShape == heap[current_shape]
UntransformedShape == heap[untransformed_shape]

----------------------------------------------------------------------------
(* Animal3D *)

\* define_indices of an instance built on the given skeleton definition
define_indices_with(self, skeleton_definition, csv_names) ==
    LET m == get_marker_indices(skeleton_definition.marker_names, csv_names)
        f == get_marker_indices(skeleton_definition.fixed_marker_names, csv_names)
        r == get_marker_indices(skeleton_definition.get_right_marker_names, csv_names)
        l == get_marker_indices(skeleton_definition.get_left_marker_names, csv_names)
    IN  IF m.exc # "none" THEN Raise(self, m.exc)
        ELSE IF f.exc # "none" THEN Raise([self EXCEPT !.marker_index = m.val], f.exc)
        ELSE IF r.exc # "none"
             THEN Raise([self EXCEPT !.marker_index = m.val,
                                     !.fixed_marker_index = f.val], r.exc)
        ELSE IF l.exc # "none"
             THEN Raise([self EXCEPT !.marker_index = m.val,
                                     !.fixed_marker_index = f.val,
                                     !.right_marker_index = r.val], l.exc)
        ELSE Ok([self EXCEPT !.marker_index = m.val,
                             !.fixed_marker_index = f.val,
                             !.right_marker_index = r.val,
                             !.left_marker_index = l.val])

\* define_indices of the instances of the other specifications: a hawk skeleton
define_indices(self, csv_names) ==
    LET m == get_marker_indices(marker_names, csv_names)
        f == get_marker_indices(fixed_marker_names, csv_names)
        r == get_marker_indices(get_right_marker_names, csv_names)
        l == get_marker_indices(get_left_marker_names, csv_names)
    IN  IF m.exc # "none" THEN Raise(self, m.exc)
        ELSE IF f.exc # "none" THEN Raise([self EXCEPT !.marker_index = m.val], f.exc)
        ELSE IF r.exc # "none"
             THEN Raise([self EXCEPT !.marker_index = m.val,
                                     !.fixed_marker_index = f.val], r.exc)
        ELSE IF l.exc # "none"
             THEN Raise([self EXCEPT !.marker_index = m.val,
                                     !.fixed_marker_index = f.val,
                                     !.right_marker_index = r.val], l.exc)
        ELSE Ok([self EXCEPT !.marker_index = m.val,
                             !.fixed_marker_index = f.val,
                             !.right_marker_index = r.val,
                             !.left_marker_index = l.val])

init_polygons(self, csv_names) ==
    LET body_section_indices == get_body_section_indices(csv_names)
    IN  IF body_section_indices.exc # "none"
        THEN Raise(self, body_section_indices.exc)
        ELSE Ok([self EXCEPT !.polygons = body_section_indices.val])

\* a[0, indices, :] of an array of shape (frames, markers, 3): shape (n, 3)
Rows(a, indices) ==
    [shape |-> <<Len(indices), 3>>,
     data  |-> Tuple([i \in 1..(3 * Len(indices)) |->
                  a.data[indices[((i - 1) \div 3) + 1] * 3 + ((i - 1) % 3) + 1]])]

\* variant: the coordinates are read from the baseline buffer
get_polygon_coords_baseline(self, section_name) ==
    IF section_name \notin DOMAIN self.polygons
    THEN [self |-> self, exc |-> "ValueError", val |-> None]
    ELSE [self |-> self, exc |-> "none",
          val |-> Rows(self.heap[self.untransformed_shape],
                       self.polygons[section_name])]

\* [self, exc, val]: the instance afterwards, the exception, the array returned
get_polygon_coords(self, section_name) ==
    IF section_name \notin DOMAIN self.polygons
    THEN [self |-> self, exc |-> "ValueError", val |-> None]
    ELSE [self |-> self, exc |-> "none",
          val |-> Rows(self.heap[self.current_shape], self.polygons[section_name])]

validate_keypoints(keypoints) ==
    IF Size(keypoints) = 0 THEN [exc |-> "ValueError", val |-> keypoints]
    ELSE IF LastDim(keypoints) # 3 THEN [exc |-> "ValueError", val |-> keypoints]
    ELSE IF Len(keypoints.shape) = 2
         THEN [exc |-> "none",
               val |-> [keypoints EXCEPT !.shape = <<1, Size(keypoints) \div 3, 3>>]]
    ELSE [exc |-> "none", val |-> keypoints]

\* keypoints with the first coordinate of every point negated
NegateFirst(keypoints) ==
    [keypoints EXCEPT !.data =
        Tuple([i \in 1..Len(keypoints.data) |->
                  IF (i - 1) % keypoints.shape[3] = 0
                  THEN -keypoints.data[i] ELSE keypoints.data[i]])]

\* variant: mirrored is the argument itself instead of a copy of it
mirror_keypoints_in_place(keypoints) ==
    LET mirrored == NegateFirst(keypoints)
        nFrames == keypoints.shape[1]
        nMarkers == keypoints.shape[2]
        nCoords == keypoints.shape[3]
        new_keypoints ==
            [shape |-> <<nFrames, nMarkers * 2, nCoords>>,
             data  |-> Tuple([i \in 1..(nFrames * nMarkers * 2 * nCoords) |->
                          LET f == (i - 1) \div (nMarkers * 2 * nCoords)
                              m == ((i - 1) % (nMarkers * 2 * nCoords)) \div nCoords
                              c == (i - 1) % nCoords
                          IN  mirrored.data[(f * nMarkers + (m \div 2)) * nCoords + c + 1]])]
    IN  IF Len(keypoints.shape) # 3
        THEN [exc |-> "IndexError", result |-> None, keypoints |-> keypoints]
        ELSE [exc |-> "none", result |-> new_keypoints, keypoints |-> mirrored]

\* [exc, result, keypoints]: the exception raised, the array returned and
\* the argument array as the call leaves it
mirror_keypoints(keypoints) ==
    LET mirrored == NegateFirst(keypoints)
        nFrames == keypoints.shape[1]
        nMarkers == keypoints.shape[2]
        nCoords == keypoints.shape[3]
        new_keypoints ==
            [shape |-> <<nFrames, nMarkers * 2, nCoords>>,
             data  |-> Tuple([i \in 1..(nFrames * nMarkers * 2 * nCoords) |->
                          LET f == (i - 1) \div (nMarkers * 2 * nCoords)
                              m == ((i - 1) % (nMarkers * 2 * nCoords)) \div nCoords
                              c == (i - 1) % nCoords
                              src == (f * nMarkers + (m \div 2)) * nCoords + c + 1
                          IN  IF m % 2 = 0 THEN mirrored.data[src]
                              ELSE keypoints.data[src]])]
    IN  IF Len(keypoints.shape) # 3
        THEN [exc |-> "IndexError", result |-> None, keypoints |-> keypoints]
        ELSE [exc |-> "none", result |-> new_keypoints, keypoints |-> keypoints]

\* plotting/animation_frame_helpers.py, for an array of two or three dimensions
format_keypoint_frames(keypoints_frames) ==
    LET reshaped ==
            IF Len(keypoints_frames.shape) = 2
            THEN [keypoints_frames EXCEPT
                     !.shape = <<1, Size(keypoints_frames) \div 3, 3>>]
            ELSE keypoints_frames
        m == mirror_keypoints(reshaped)
    IN  IF Len(keypoints_frames.shape) = 2 /\ Size(keypoints_frames) % 3 # 0
        THEN [exc |-> "ValueError", result |-> None, keypoints |-> keypoints_frames]
        ELSE IF reshaped.shape[2] = Len(get_right_marker_names)
        THEN [exc |-> m.exc, result |-> m.result,
              keypoints |-> [m.keypoints EXCEPT !.shape = keypoints_frames.shape]]
        ELSE [exc |-> "none", result |-> reshaped, keypoints |-> keypoints_frames]

\* variant: the homogeneous rows are multiplied by the matrix, not its transpose
apply_transformation_untransposed(self) ==
    LET cs == self.heap[self.current_shape]
        rows == Size(cs) \div 3
        t == NewRef(self)
        M == self.transformation_matrix
        transposed == <<<<M[1][1], M[2][1], M[3][1], M[4][1]>>,
                        <<M[1][2], M[2][2], M[3][2], M[4][2]>>,
                        <<M[1][3], M[2][3], M[3][3], M[4][3]>>,
                        <<M[1][4], M[2][4], M[3][4], M[4][4]>>>>
    IN  IF Len(cs.shape) < 2 THEN Raise(self, "IndexError")
        ELSE IF rows # cs.shape[2] THEN Raise(self, "ValueError")
        ELSE Ok([self EXCEPT
                   !.heap[t] = FromPoints(
                       Tuple([k \in 1..rows |->
                           TransformPoint(transposed, PointAt(cs, 0, k - 1))])),
                   !.current_shape = t])

apply_transformation(self) ==
    LET cs == self.heap[self.current_shape]
        rows == Size(cs) \div 3
        t == NewRef(self)
    IN  IF Len(cs.shape) < 2 THEN Raise(self, "IndexError")
        ELSE IF rows # cs.shape[2] THEN Raise(self, "ValueError")
        ELSE Ok([self EXCEPT
                   !.heap[t] = FromPoints(
                       Tuple([k \in 1..rows |->
                           TransformPoint(self.transformation_matrix,
                                          PointAt(cs, 0, k - 1))])),
                   !.current_shape = t])

\* variant: the accumulated matrix is left as it is
reset_transformation_keeps_matrix(self) ==
    Ok([self EXCEPT !.current_shape = self.untransformed_shape,
                    !.origin = <<0, 0, 0>>])

\* variant: the working pose is left as it is
reset_transformation_keeps_pose(self) ==
    Ok([self EXCEPT !.transformation_matrix = Identity4,
                    !.origin = <<0, 0, 0>>])

reset_transformation(self) ==
    Ok([self EXCEPT !.transformation_matrix = Identity4,
                    !.current_shape = self.untransformed_shape,
                    !.origin = <<0, 0, 0>>])

\* variant: the working pose is the reference array itself, not a copy
restore_keypoints_without_copy(self) ==
    LET s1 == [self EXCEPT !.current_shape = self.default_shape]
        u  == NewRef(s1)
        s2 == [s1 EXCEPT !.heap[u] = s1.heap[s1.current_shape],
                         !.untransformed_shape = u]
    IN  Ok([s2 EXCEPT !.origin = <<0, 0, 0>>])

\* variant: the working pose is restored from the baseline buffer
restore_keypoints_from_baseline(self) ==
    LET c  == NewRef(self)
        s1 == [self EXCEPT !.heap[c] = self.heap[self.untransformed_shape],
                           !.current_shape = c]
        u  == NewRef(s1)
        s2 == [s1 EXCEPT !.heap[u] = s1.heap[s1.current_shape],
                         !.untransformed_shape = u]
    IN  Ok([s2 EXCEPT !.origin = <<0, 0, 0>>])

restore_keypoints_to_average(self) ==
    LET c  == NewRef(self)
        s1 == [self EXCEPT !.heap[c] = self.heap[self.default_shape],
                           !.current_shape = c]
        u  == NewRef(s1)
        s2 == [s1 EXCEPT !.heap[u] = s1.heap[s1.current_shape],
                         !.untransformed_shape = u]
    IN  Ok([s2 EXCEPT !.origin = <<0, 0, 0>>])

\* variant: the rotation about x is built with the matrix of the y axis
update_rotation_wrong_axis(self, degrees, which) ==
    LET rotation_matrix ==
            IF which = "x" \/ which = "y"
            THEN <<<<Cos(degrees), 0, Sin(degrees), 0>>,
                   <<0, 1, 0, 0>>,
                   <<-Sin(degrees), 0, Cos(degrees), 0>>,
                   <<0, 0, 0, 1>>>>
            ELSE <<<<Cos(degrees), -Sin(degrees), 0, 0>>,
                   <<Sin(degrees), Cos(degrees), 0, 0>>,
                   <<0, 0, 1, 0>>,
                   <<0, 0, 0, 1>>>>
    IN  Ok([self EXCEPT !.transformation_matrix =
                            MatMul(self.transformation_matrix, rotation_matrix)])

\* variant: the rotation about z turns the other way
update_rotation_clockwise(self, degrees, which) ==
    LET rotation_matrix ==
            IF which = "x"
            THEN <<<<1, 0, 0, 0>>,
                   <<0, Cos(degrees), -Sin(degrees), 0>>,
                   <<0, Sin(degrees), Cos(degrees), 0>>,
                   <<0, 0, 0, 1>>>>
            ELSE IF which = "y"
            THEN <<<<Cos(degrees), 0, Sin(degrees), 0>>,
                   <<0, 1, 0, 0>>,
                   <<-Sin(degrees), 0, Cos(degrees), 0>>,
                   <<0, 0, 0, 1>>>>
            ELSE <<<<Cos(degrees), Sin(degrees), 0, 0>>,
                   <<-Sin(degrees), Cos(degrees), 0, 0>>,
                   <<0, 0, 1, 0>>,
                   <<0, 0, 0, 1>>>>
    IN  Ok([self EXCEPT !.transformation_matrix =
                            MatMul(self.transformation_matrix, rotation_matrix)])

update_rotation(self, degrees, which) ==
    LET rotation_matrix ==
            IF which = "x"
            THEN <<<<1, 0, 0, 0>>,
                   <<0, Cos(degrees), -Sin(degrees), 0>>,
                   <<0, Sin(degrees), Cos(degrees), 0>>,
                   <<0, 0, 0, 1>>>>
            ELSE IF which = "y"
            THEN <<<<Cos(degrees), 0, Sin(degrees), 0>>,
                   <<0, 1, 0, 0>>,
                   <<-Sin(degrees), 0, Cos(degrees), 0>>,
                   <<0, 0, 0, 1>>>>
            ELSE <<<<Cos(degrees), -Sin(degrees), 0, 0>>,
                   <<Sin(degrees), Cos(degrees), 0, 0>>,
                   <<0, 0, 1, 0>>,
                   <<0, 0, 0, 1>>>>
    IN  Ok([self EXCEPT !.transformation_matrix =
                            MatMul(self.transformation_matrix, rotation_matrix)])

\* variant: the horizontal distance offsets the first axis
update_translation_first_axis(self, horzDist, vertDist) ==
    LET translation_matrix ==
            <<<<1, 0, 0, horzDist>>,
              <<0, 1, 0, 0>>,
              <<0, 0, 1, vertDist>>,
              <<0, 0, 0, 1>>>>
    IN  Ok([self EXCEPT
              !.transformation_matrix =
                  MatMul(self.transformation_matrix, translation_matrix),
              !.origin = <<self.origin[1] + horzDist, self.origin[2],
                           self.origin[3] + vertDist>>])

\* variant: origin is replaced instead of added to
update_translation_overwrites_origin(self, horzDist, vertDist) ==
    LET translation_matrix ==
            <<<<1, 0, 0, 0>>,
              <<0, 1, 0, horzDist>>,
              <<0, 0, 1, vertDist>>,
              <<0, 0, 0, 1>>>>
    IN  Ok([self EXCEPT
              !.transformation_matrix =
                  MatMul(self.transformation_matrix, translation_matrix),
              !.origin = <<0, horzDist, vertDist>>])

update_translation(self, horzDist, vertDist) ==
    LET translation_matrix ==
            <<<<1, 0, 0, 0>>,
              <<0, 1, 0, horzDist>>,
              <<0, 0, 1, vertDist>>,
              <<0, 0, 0, 1>>>>
    IN  Ok([self EXCEPT
              !.transformation_matrix =
                  MatMul(self.transformation_matrix, translation_matrix),
              !.origin = <<self.origin[1], self.origin[2] + horzDist,
                           self.origin[3] + vertDist>>])

\* variant: the transformed pose also becomes the baseline
transform_keypoints_rebases(self, bodypitch, horzDist, vertDist, yaw) ==
    LET s1 == reset_transformation(self).self
        s2 == update_translation(s1, horzDist, vertDist).self
        s3 == update_rotation(s2, bodypitch, "x").self
        s4 == update_rotation(s3, yaw, "z").self
        a  == apply_transformation(s4)
    IN  [a EXCEPT !.self.untransformed_shape = a.self.current_shape]

\* variant: the transformation is not reset first
transform_keypoints_no_reset(self, bodypitch, horzDist, vertDist, yaw) ==
    LET s2 == update_translation(self, horzDist, vertDist).self
        s3 == update_rotation(s2, bodypitch, "x").self
        s4 == update_rotation(s3, yaw, "z").self
    IN  apply_transformation(s4)

\* variant: the yaw is composed before the pitch
transform_keypoints_yaw_first(self, bodypitch, horzDist, vertDist, yaw) ==
    LET s1 == reset_transformation(self).self
        s2 == update_translation(s1, horzDist, vertDist).self
        s3 == update_rotation(s2, yaw, "z").self
        s4 == update_rotation(s3, bodypitch, "x").self
    IN  apply_transformation(s4)

transform_keypoints(self, bodypitch, horzDist, vertDist, yaw) ==
    LET s1 == reset_transformation(self).self
        s2 == update_translation(s1, horzDist, vertDist).self
        s3 == update_rotation(s2, bodypitch, "x").self
        s4 == update_rotation(s3, yaw, "z").self
    IN  apply_transformation(s4)

\* variant: the input is scattered into a copy of the baseline
update_keypoints_into_baseline(self, user_keypoints) ==
    IF user_keypoints = None THEN restore_keypoints_to_average(self)
    ELSE LET validated_keypoints == validate_keypoints(user_keypoints)
             written == SetItem(self.heap[self.untransformed_shape],
                                self.marker_index, validated_keypoints.val)
             c  == NewRef(self)
             s1 == [self EXCEPT !.heap[c] = written.val, !.current_shape = c]
             u  == NewRef(s1)
             s2 == [s1 EXCEPT !.heap[u] = s1.heap[s1.current_shape],
                              !.untransformed_shape = u]
         IN  IF validated_keypoints.exc # "none"
             THEN Raise(self, validated_keypoints.exc)
             ELSE IF written.exc # "none" THEN Raise(self, written.exc)
             ELSE apply_transformation(s2)

\* variant: the baseline snapshot is taken after the transformation is applied
update_keypoints_snapshot_last(self, user_keypoints) ==
    IF user_keypoints = None THEN restore_keypoints_to_average(self)
    ELSE LET validated_keypoints == validate_keypoints(user_keypoints)
             written == SetItem(self.heap[self.current_shape], self.marker_index,
                                validated_keypoints.val)
             s1 == [self EXCEPT !.heap[self.current_shape] = written.val]
             a  == apply_transformation(s1)
             u  == NewRef(a.self)
         IN  IF validated_keypoints.exc # "none"
             THEN Raise(self, validated_keypoints.exc)
             ELSE IF written.exc # "none" THEN Raise(self, written.exc)
             ELSE IF a.exc # "none" THEN a
             ELSE Ok([a.self EXCEPT !.heap[u] = a.self.heap[a.self.current_shape],
                                    !.untransformed_shape = u])

\* variant: the baseline snapshot is taken before the input is validated
update_keypoints_snapshot_first(self, user_keypoints) ==
    IF user_keypoints = None THEN restore_keypoints_to_average(self)
    ELSE LET u0 == NewRef(self)
             s0 == [self EXCEPT !.heap[u0] = self.heap[self.current_shape],
                                !.untransformed_shape = u0]
             validated_keypoints == validate_keypoints(user_keypoints)
             written == SetItem(s0.heap[s0.current_shape], s0.marker_index,
                                validated_keypoints.val)
             s1 == [s0 EXCEPT !.heap[s0.current_shape] = written.val]
             u  == NewRef(s1)
             s2 == [s1 EXCEPT !.heap[u] = s1.heap[s1.current_shape],
                              !.untransformed_shape = u]
         IN  IF validated_keypoints.exc # "none"
             THEN Raise(s0, validated_keypoints.exc)
             ELSE IF written.exc # "none" THEN Raise(s0, written.exc)
             ELSE apply_transformation(s2)

\* variant: without keypoints only the transformation is reset
update_keypoints_none_resets(self, user_keypoints) ==
    IF user_keypoints = None THEN reset_transformation(self)
    ELSE LET validated_keypoints == validate_keypoints(user_keypoints)
             written == SetItem(self.heap[self.current_shape], self.marker_index,
                                validated_keypoints.val)
             s1 == [self EXCEPT !.heap[self.current_shape] = written.val]
             u  == NewRef(s1)
             s2 == [s1 EXCEPT !.heap[u] = s1.heap[s1.current_shape],
                              !.untransformed_shape = u]
         IN  IF validated_keypoints.exc # "none"
             THEN Raise(self, validated_keypoints.exc)
             ELSE IF written.exc # "none" THEN Raise(self, written.exc)
             ELSE apply_transformation(s2)

update_keypoints(self, user_keypoints) ==
    IF user_keypoints = None THEN restore_keypoints_to_average(self)
    ELSE LET validated_keypoints == validate_keypoints(user_keypoints)
             written == SetItem(self.heap[self.current_shape], self.marker_index,
                                validated_keypoints.val)
             s1 == [self EXCEPT !.heap[self.current_shape] = written.val]
             u  == NewRef(s1)
             s2 == [s1 EXCEPT !.heap[u] = s1.heap[s1.current_shape],
                              !.untransformed_shape = u]
         IN  IF validated_keypoints.exc # "none"
             THEN Raise(self, validated_keypoints.exc)
             ELSE IF written.exc # "none" THEN Raise(self, written.exc)
             ELSE apply_transformation(s2)

\* the read accessors: markers, right_markers, left_markers, default_markers
markers == Gather(CurrentShape, marker_index)
right_markers == Gather(CurrentShape, right_marker_index)
left_markers == Gather(CurrentShape, left_marker_index)
default_markers == Gather(DefaultShape, marker_index)
----------------------------------------------------------------------------
(* Loading: Animal3D.__init__ followed by Spider3D.load_csv *)

\* the coordinates the CSV file holds for each marker
TruePoint(name) ==
    CASE name = left_wingtip  -> <<-1, 1, 0>>
      [] name = right_wingtip -> <<1, 1, 0>>
      [] name = left_tailtip  -> <<-1, -1, 1>>
      [] name = right_tailtip -> <<1, -1, 0>>
      [] name = hood          -> <<0, 1, 1>>
      [] OTHER                -> <<0, 0, 0>>

\* Python: name.replace(pat, ''), every occurrence from left to right
RECURSIVE Remove(_, _)
Remove(name, pat) ==
    IF Len(name) < Len(pat) THEN name
    ELSE IF SubSeq(name, 1, Len(pat)) = pat
         THEN Remove(SubSeq(name, Len(pat) + 1, Len(name)), pat)
         ELSE <<Head(name)>> \o Remove(Tail(name), pat)

\* the names of a list in order of first appearance, each once
RECURSIVE Unique(_)
Unique(names) ==
    IF Len(names) = 0 THEN <<>>
    ELSE LET front == Unique(SubSeq(names, 1, Len(names) - 1))
             name == names[Len(names)]
         IN  IF name \in Range(front) THEN front ELSE Append(front, name)

get_csv_marker_names(header_row) ==
    LET cleaned_names ==
            Tuple([i \in 1..Len(header_row) |->
                      Remove(Remove(Remove(header_row[i], <<"_", "x">>),
                                    <<"_", "y">>),
                             <<"_", "z">>)])
    IN  Unique(cleaned_names)

\* get_csv_keypoints: rows of three coordinates, in the order of the columns
get_csv_keypoints(csv_names) ==
    [shape |-> <<Len(csv_names), 3>>,
     data  |-> Tuple([i \in 1..(3 * Len(csv_names)) |->
                  TruePoint(csv_names[((i - 1) \div 3) + 1])[((i - 1) % 3) + 1]])]

\* Animal3D.__init__
NewAnimal3D ==
    [csv_marker_names      |-> <<>>,
     marker_index          |-> <<>>,
     fixed_marker_index    |-> <<>>,
     right_marker_index    |-> <<>>,
     left_marker_index     |-> <<>>,
     polygons              |-> <<>>,
     heap                  |-> [id \in Ids |-> NoArray],
     default_shape         |-> 0,
     current_shape         |-> 0,
     untransformed_shape   |-> 0,
     transformation_matrix |-> Identity4,
     origin                |-> <<0, 0, 0>>]

load_csv(self, csv_names) ==
    LET s1 == [self EXCEPT !.csv_marker_names = csv_names]
        d  == define_indices(s1, csv_names)
        validated_keypoints == validate_keypoints(get_csv_keypoints(csv_names))
        dref == NewRef(d.self)
        s2 == [d.self EXCEPT !.heap[dref] = validated_keypoints.val,
                             !.default_shape = dref]
        cref == NewRef(s2)
        s3 == [s2 EXCEPT !.heap[cref] = s2.heap[s2.default_shape],
                         !.current_shape = cref]
        uref == NewRef(s3)
        s4 == [s3 EXCEPT !.heap[uref] = s3.heap[s3.default_shape],
                         !.untransformed_shape = uref]
    IN  IF d.exc # "none" THEN d
        ELSE IF validated_keypoints.exc # "none"
             THEN Raise(d.self, validated_keypoints.exc)
        ELSE Ok(s4)

\* Spider3D.__init__: the constructor's steps on a new instance
Spider3D(csv_names) ==
    LET l == load_csv(NewAnimal3D, csv_names)
    IN  IF l.exc # "none" THEN l ELSE init_polygons(l.self, csv_names)

\* Hawk3D.load_csv: the validated array is dropped and the first row is kept
Hawk3D_load_csv(self, csv_names) ==
    LET s1 == [self EXCEPT !.csv_marker_names = csv_names]
        d  == define_indices(s1, csv_names)
        keypoints == get_csv_keypoints(csv_names)
        validated_keypoints == validate_keypoints(keypoints)
        dref == NewRef(d.self)
        s2 == [d.self EXCEPT
                  !.heap[dref] = [shape |-> <<3>>,
                                  data  |-> SubSeq(keypoints.data, 1, 3)],
                  !.default_shape = dref]
        cref == NewRef(s2)
        s3 == [s2 EXCEPT !.heap[cref] = s2.heap[s2.default_shape],
                         !.current_shape = cref]
        uref == NewRef(s3)
        s4 == [s3 EXCEPT !.heap[uref] = s3.heap[s3.default_shape],
                         !.untransformed_shape = uref]
    IN  IF d.exc # "none" THEN d
        ELSE IF validated_keypoints.exc # "none"
             THEN Raise(d.self, validated_keypoints.exc)
        ELSE Ok(s4)

\* Hawk3D.__init__: init_polygons is called with one argument too many
Hawk3D(csv_names) ==
    LET l == Hawk3D_load_csv(NewAnimal3D, csv_names)
    IN  IF l.exc # "none" THEN l ELSE Raise(l.self, "TypeError")

\* the column order of the test CSV file, restricted to the reduced skeleton
CsvOrder == <<left_wingtip, left_tailtip, right_tailtip, hood, right_wingtip>>

\* the column orders instances are loaded from
ColumnOrders == {CsvOrder}

----------------------------------------------------------------------------
(* Inputs of the calls *)

\* point k of user pose v
UserPoint(v, k) == <<1, k % 2, (k \div 2) + v>>

\* the user array of a given shape holding pose v (pose v + f in frame f)
UserArray(shape, v) ==
    LET s == Pad3(shape)
    IN  [shape |-> shape,
         data  |-> Tuple([i \in 1..Prod(shape) |->
                      LET f == (i - 1) \div (s[2] * s[3])
                          k == ((i - 1) % (s[2] * s[3])) \div s[3]
                          c == (i - 1) % s[3]
                      IN  UserPoint(v + f, k)[c + 1]])]

NumMoving == Len(marker_names)

\* full poses, and None
PoseInputs ==
    {UserArray(<<1, NumMoving, 3>>, v) : v \in 0..MaxPose} \cup {None}

\* arrays of every kind of shape, holding pose 0: full and one-sided counts,
\* a single point, other counts, no points, two coordinates, several frames
ShapeInputs ==
    {UserArray(shape, 0) :
        shape \in {<<NumMoving, 3>>, <<1, 3>>, <<0, 3>>, <<NumMoving, 2>>,
                   <<1, NumMoving, 2>>}
               \cup {<<1, n, 3>> : n \in 1..(NumMoving + 1)}
               \cup {<<f, NumMoving, 3>> : f \in 2..MaxFrames}}

\* the arguments of transform_keypoints
Dists == 0..MaxDist

----------------------------------------------------------------------------
(* The state machine *)

\* no stand-alone call is pending or done
Idle == [op |-> "none"]

SetInstance(self) ==
    /\ csv_marker_names = self.csv_marker_names
    /\ marker_index = self.marker_index
    /\ fixed_marker_index = self.fixed_marker_index
    /\ right_marker_index = self.right_marker_index
    /\ left_marker_index = self.left_marker_index
    /\ polygons = self.polygons
    /\ heap = self.heap
    /\ default_shape = self.default_shape
    /\ current_shape = self.current_shape
    /\ untransformed_shape = self.untransformed_shape
    /\ transformation_matrix = self.transformation_matrix
    /\ origin = self.origin

\* the instance after a call
Commit(self) ==
    /\ csv_marker_names' = self.csv_marker_names
    /\ marker_index' = self.marker_index
    /\ fixed_marker_index' = self.fixed_marker_index
    /\ right_marker_index' = self.right_marker_index
    /\ left_marker_index' = self.left_marker_index
    /\ polygons' = self.polygons
    /\ heap' = self.heap
    /\ default_shape' = self.default_shape
    /\ current_shape' = self.current_shape
    /\ untransformed_shape' = self.untransformed_shape
    /\ transformation_matrix' = self.transformation_matrix
    /\ origin' = self.origin

\* every coordinate of every buffer is within the model's bound
WithinBounds(self) ==
    \A id \in Live(self) :
        \A i \in 1..Len(self.heap[id].data) : Abs(self.heap[id].data[i]) <= MaxAbs

\* a call with outcome r, recorded as label
Call(r, label) ==
    /\ WithinBounds(r.self)
    /\ \E after \in {Canon(r.self)} : Commit(after)
    /\ last' = label

\* the instance as loaded from a CSV file with the given column order
Loaded(csv_names) ==
    /\ \E after \in {Canon(Spider3D(csv_names).self)} : SetInstance(after)
    /\ last = [op |-> "Spider3D", exc |-> "none"]

Init ==
    /\ \E csv_names \in ColumnOrders : Loaded(csv_names)
    /\ resolved = Idle
    /\ formatted = Idle
    /\ episode = [step |-> 0]

UpdateKeypointsFrom(inputs) ==
    \E user_keypoints \in inputs :
        \E r \in {update_keypoints(Self, user_keypoints)} :
            Call(r, [op |-> "update_keypoints", arg |-> user_keypoints, exc |-> r.exc])

TransformKeypointsFrom(pitches, yaws, horzDists, vertDists) ==
    \E bodypitch \in pitches, yaw \in yaws, horzDist \in horzDists,
       vertDist \in vertDists :
        \E r \in {transform_keypoints(Self, bodypitch, horzDist, vertDist, yaw)} :
            Call(r, [op |-> "transform_keypoints", bodypitch |-> bodypitch,
                     horzDist |-> horzDist, vertDist |-> vertDist, yaw |-> yaw,
                     exc |-> r.exc])

UpdateKeypoints ==
    /\ UpdateKeypointsFrom(PoseInputs)
    /\ UNCHANGED <<resolved, formatted, episode>>

TransformKeypoints ==
    /\ TransformKeypointsFrom(PitchDegrees, {0}, Dists, Dists)
    /\ UNCHANGED <<resolved, formatted, episode>>

ResetTransformation ==
    /\ \E r \in {reset_transformation(Self)} :
           Call(r, [op |-> "reset_transformation", exc |-> r.exc])
    /\ UNCHANGED <<resolved, formatted, episode>>

RestoreKeypointsToAverage ==
    /\ \E r \in {restore_keypoints_to_average(Self)} :
           Call(r, [op |-> "restore_keypoints_to_average", exc |-> r.exc])
    /\ UNCHANGED <<resolved, formatted, episode>>

Next ==
    \/ UpdateKeypoints
    \/ TransformKeypoints
    \/ ResetTransformation
    \/ RestoreKeypointsToAverage

Spec == Init /\ [][Next]_vars

----------------------------------------------------------------------------
(* Validation: update_keypoints with arrays of every kind of shape *)

UpdateAnyShape ==
    /\ UpdateKeypointsFrom(ShapeInputs)
    /\ UNCHANGED <<resolved, formatted, episode>>

TransformPitchYawShift ==
    /\ TransformKeypointsFrom({0, 90}, YawDegrees, {0, MaxDist}, {0})
    /\ UNCHANGED <<resolved, formatted, episode>>

NextValidate ==
    \/ UpdateAnyShape
    \/ TransformPitchYawShift
    \/ ResetTransformation
    \/ RestoreKeypointsToAverage

SpecValidate == Init /\ [][NextValidate]_vars

----------------------------------------------------------------------------
(* Resolution: get_marker_indices for every column order and name list *)

\* the names a resolution may request: the skeleton's and one absent name
RequestNames == Range(get_all_marker_names) \cup {tailpack}

InitResolve ==
    /\ \E csv_names \in Orderings(get_all_marker_names) : Loaded(csv_names)
    /\ \E marker_subset \in SeqUpTo(RequestNames, MaxSubset) :
           resolved = [op |-> "pending", marker_subset |-> marker_subset]
    /\ formatted = Idle
    /\ episode = [step |-> 0]

GetMarkerIndices ==
    /\ resolved.op = "pending"
    /\ \E r \in {get_marker_indices(resolved.marker_subset, csv_marker_names)} :
           resolved' = [op |-> "get_marker_indices",
                        marker_subset |-> resolved.marker_subset,
                        exc |-> r.exc, val |-> r.val]
    /\ UNCHANGED <<indexVars, shapeVars, last, formatted, episode>>

NextResolve == GetMarkerIndices

SpecResolve == InitResolve /\ [][NextResolve]_vars

----------------------------------------------------------------------------
(* Mirroring: mirror_keypoints and format_keypoint_frames on small arrays *)

\* one-sided arrays have 0..MaxMirror markers
MaxMirror == 2

MirrorPoints == {<<1, 0, 0>>, <<2, -1, 1>>, <<-1, 2, 0>>}

MirrorShapes ==
    {<<f, n, 3>> : f \in 1..MaxFrames, n \in 0..MaxMirror}
    \cup {<<n, 3>> : n \in 1..MaxMirror}

MirrorInputs ==
    UNION {{[shape |-> shape, data |-> FromPoints(pts).data] :
               pts \in [1..(Prod(shape) \div 3) -> MirrorPoints]} :
           shape \in MirrorShapes}

InitMirror ==
    /\ Loaded(CsvOrder)
    /\ resolved = Idle
    /\ \E keypoints \in MirrorInputs :
           formatted = [op |-> "pending", keypoints |-> keypoints]
    /\ episode = [step |-> 0]

MirrorKeypoints ==
    /\ formatted.op = "pending"
    /\ \E r \in {mirror_keypoints(formatted.keypoints)} :
           formatted' = [op |-> "mirror_keypoints", keypoints |-> formatted.keypoints,
                         exc |-> r.exc, result |-> r.result, after |-> r.keypoints]
    /\ UNCHANGED <<indexVars, shapeVars, last, resolved, episode>>

FormatKeypointFrames ==
    /\ formatted.op = "pending"
    /\ \E r \in {format_keypoint_frames(formatted.keypoints)} :
           formatted' = [op |-> "format_keypoint_frames",
                         keypoints |-> formatted.keypoints,
                         exc |-> r.exc, result |-> r.result, after |-> r.keypoints]
    /\ UNCHANGED <<indexVars, shapeVars, last, resolved, episode>>

NextMirror ==
    \/ MirrorKeypoints
    \/ FormatKeypointFrames

SpecMirror == InitMirror /\ [][NextMirror]_vars

----------------------------------------------------------------------------
(* The sequence transform_keypoints(bodypitch=180); reset_transformation();  *)
(* transform_keypoints(bodypitch=180), started in any state                  *)

PitchFirst ==
    /\ episode.step = 0
    /\ \E r \in {transform_keypoints(Self, 180, 0, 0, 0)} :
           /\ Call(r, [op |-> "transform_keypoints", bodypitch |-> 180,
                       horzDist |-> 0, vertDist |-> 0, yaw |-> 0, exc |-> r.exc])
           /\ episode' = [step |-> 1, before |-> CurrentShape,
                          first |-> r.self.heap[r.self.current_shape]]
    /\ UNCHANGED <<resolved, formatted>>

PitchReset ==
    /\ episode.step = 1
    /\ \E r \in {reset_transformation(Self)} :
           Call(r, [op |-> "reset_transformation", exc |-> r.exc])
    /\ episode' = [episode EXCEPT !.step = 2]
    /\ UNCHANGED <<resolved, formatted>>

PitchSecond ==
    /\ episode.step = 2
    /\ \E r \in {transform_keypoints(Self, 180, 0, 0, 0)} :
           Call(r, [op |-> "transform_keypoints", bodypitch |-> 180,
                    horzDist |-> 0, vertDist |-> 0, yaw |-> 0, exc |-> r.exc])
    /\ episode' = [episode EXCEPT !.step = 3]
    /\ UNCHANGED <<resolved, formatted>>

NextPitchTwice ==
    \/ episode.step = 0 /\ Next
    \/ PitchFirst
    \/ PitchReset
    \/ PitchSecond

SpecPitchTwice == Init /\ [][NextPitchTwice]_vars

----------------------------------------------------------------------------
(* Composition: transform_keypoints with every combination of pitch, yaw   *)
(* and offsets, as the last call of a run of updates, transforms, resets   *)
(* and restores                                                            *)

ComposePose ==
    /\ episode.step = 0
    /\ TransformKeypointsFrom(PitchDegrees, YawDegrees, Dists, Dists)
    /\ episode' = [step |-> 1]
    /\ UNCHANGED <<resolved, formatted>>

NextCompose ==
    \/ episode.step = 0 /\ Next
    \/ ComposePose

SpecCompose == Init /\ [][NextCompose]_vars

----------------------------------------------------------------------------
(* The sequence transform_keypoints(...); reset_transformation();           *)
(* transform_keypoints() with all parameters zero, started in any state;    *)
(* the reset may also be the first call of the sequence                     *)

EpisodeTransform ==
    /\ episode.step = 0
    /\ \E bodypitch \in {0, 90}, yaw \in YawDegrees,
          horzDist \in {0, MaxDist}, vertDist \in {0, MaxDist} :
        \E r \in {transform_keypoints(Self, bodypitch, horzDist, vertDist, yaw)} :
           /\ Call(r, [op |-> "transform_keypoints", bodypitch |-> bodypitch,
                       horzDist |-> horzDist, vertDist |-> vertDist, yaw |-> yaw,
                       exc |-> r.exc])
           /\ episode' = [step |-> 1, transformed |-> TRUE,
                          untransformed |-> UntransformedShape,
                          default |-> DefaultShape,
                          posed |-> r.self.heap[r.self.current_shape]]
    /\ UNCHANGED <<resolved, formatted>>

EpisodeReset ==
    /\ episode.step \in {0, 1}
    /\ \E r \in {reset_transformation(Self)} :
           Call(r, [op |-> "reset_transformation", exc |-> r.exc])
    /\ episode' = IF episode.step = 1 THEN [episode EXCEPT !.step = 2]
                  ELSE [step |-> 2, transformed |-> FALSE,
                        untransformed |-> UntransformedShape,
                        default |-> DefaultShape,
                        posed |-> CurrentShape]
    /\ UNCHANGED <<resolved, formatted>>

EpisodeTransformZero ==
    /\ episode.step = 2
    /\ \E r \in {transform_keypoints(Self, 0, 0, 0, 0)} :
           Call(r, [op |-> "transform_keypoints", bodypitch |-> 0,
                    horzDist |-> 0, vertDist |-> 0, yaw |-> 0, exc |-> r.exc])
    /\ episode' = [episode EXCEPT !.step = 3]
    /\ UNCHANGED <<resolved, formatted>>

NextResetLaws ==
    \/ episode.step = 0 /\ Next
    \/ EpisodeTransform
    \/ EpisodeReset
    \/ EpisodeTransformZero

SpecResetLaws == Init /\ [][NextResetLaws]_vars

----------------------------------------------------------------------------
(* Loading: instances built by Spider3D and by Hawk3D, and the calls that  *)
(* follow                                                                  *)

LoadOrders == {get_all_marker_names, CsvOrder}

\* the instance Hawk3D.__init__ leaves behind
LoadedHawk(csv_names) ==
    \E r \in {Hawk3D(csv_names)} :
        /\ \E after \in {Canon(r.self)} : SetInstance(after)
        /\ last = [op |-> "Hawk3D", exc |-> r.exc]

InitLoad ==
    /\ \E csv_names \in LoadOrders : Loaded(csv_names) \/ LoadedHawk(csv_names)
    /\ resolved = Idle
    /\ formatted = Idle
    /\ episode = [step |-> 0]

NextLoad ==
    \/ UpdateKeypoints
    \/ TransformPitchYawShift
    \/ ResetTransformation
    \/ RestoreKeypointsToAverage

SpecLoad == InitLoad /\ [][NextLoad]_vars

----------------------------------------------------------------------------
(* Polygons: get_polygon_coords and get_marker_indices as the last call of *)
(* a run of updates, transforms, resets and restores                       *)

\* the section names asked for: the known ones and one that is not a section
RequestSections == Range(SectionNames) \cup {"wing"}

TransformPitchShift ==
    /\ TransformKeypointsFrom({0, 90}, {0}, {0, MaxDist}, {0})
    /\ UNCHANGED <<resolved, formatted, episode>>

GetPolygonCoords ==
    /\ episode.step = 0
    /\ \E section_name \in RequestSections :
           \E r \in {get_polygon_coords(Self, section_name)} :
               Call(r, [op |-> "get_polygon_coords", section_name |-> section_name,
                        exc |-> r.exc, val |-> r.val])
    /\ episode' = [step |-> 1]
    /\ UNCHANGED <<resolved, formatted>>

ResolveNames ==
    /\ episode.step = 0
    /\ \E marker_subset \in SeqUpTo(RequestNames, MaxSubset) :
           \E r \in {get_marker_indices(marker_subset, csv_marker_names)} :
               last' = [op |-> "get_marker_indices", marker_subset |-> marker_subset,
                        exc |-> r.exc, val |-> r.val]
    /\ episode' = [step |-> 1]
    /\ UNCHANGED <<indexVars, shapeVars, resolved, formatted>>

NextPolygons ==
    \/ episode.step = 0 /\ UpdateKeypoints
    \/ episode.step = 0 /\ TransformPitchShift
    \/ episode.step = 0 /\ ResetTransformation
    \/ episode.step = 0 /\ RestoreKeypointsToAverage
    \/ GetPolygonCoords
    \/ ResolveNames

SpecPolygons == Init /\ [][NextPolygons]_vars

----------------------------------------------------------------------------
(* Origin: update_translation and update_rotation called directly, with    *)
(* the translations made since the last reset or restore recorded          *)

\* at most MaxCalls translations are made without a reset or restore
MaxCalls == 2
\* a direct translation that would leave a matrix offset beyond MaxShift is
\* not taken (restore_keypoints_to_average keeps the matrix)
MaxShift == 2

InitOrigin ==
    /\ Loaded(CsvOrder)
    /\ resolved = Idle
    /\ formatted = Idle
    /\ episode = [step |-> 0, calls |-> <<>>]

UpdateTranslation ==
    /\ Len(episode.calls) < MaxCalls
    /\ \E horzDist \in Dists, vertDist \in Dists :
           /\ \E r \in {update_translation(Self, horzDist, vertDist)} :
                  /\ \A i \in 1..3 :
                         Abs(r.self.transformation_matrix[i][4]) <= MaxShift
                  /\ Call(r, [op |-> "update_translation", horzDist |-> horzDist,
                              vertDist |-> vertDist, exc |-> r.exc])
           /\ episode' = [episode EXCEPT
                             !.calls = Append(@, <<horzDist, vertDist>>)]
    /\ UNCHANGED <<resolved, formatted>>

UpdateRotation ==
    /\ \E r \in {update_rotation(Self, 90, "x")} :
           Call(r, [op |-> "update_rotation", degrees |-> 90, which |-> "x",
                    exc |-> r.exc])
    /\ UNCHANGED <<resolved, formatted, episode>>

ResetOrigin ==
    /\ \E r \in {reset_transformation(Self)} :
           Call(r, [op |-> "reset_transformation", exc |-> r.exc])
    /\ episode' = [episode EXCEPT !.calls = <<>>]
    /\ UNCHANGED <<resolved, formatted>>

RestoreOrigin ==
    /\ \E r \in {restore_keypoints_to_average(Self)} :
           Call(r, [op |-> "restore_keypoints_to_average", exc |-> r.exc])
    /\ episode' = [episode EXCEPT !.calls = <<>>]
    /\ UNCHANGED <<resolved, formatted>>

NextOrigin ==
    \/ UpdateTranslation
    \/ UpdateRotation
    \/ ResetOrigin
    \/ RestoreOrigin

SpecOrigin == InitOrigin /\ [][NextOrigin]_vars

----------------------------------------------------------------------------
(* Sides: define_indices on instances of both shipped skeleton definitions, *)
(* for every column order                                                   *)

SkeletonDefinitions ==
    [hawk |-> HawkSkeletonDefinition, spider |-> SpiderSkeletonDefinition]

\* load_csv at the point where csv_marker_names is set and define_indices
\* is about to be called
InitSides ==
    /\ \E kind \in DOMAIN SkeletonDefinitions :
           \E csv_names \in Orderings(SkeletonDefinitions[kind].marker_names
                                       \o SkeletonDefinitions[kind].fixed_marker_names) :
               /\ SetInstance([NewAnimal3D EXCEPT !.csv_marker_names = csv_names])
               /\ last = [op |-> "Animal3D", skeleton |-> kind, exc |-> "none"]
    /\ resolved = Idle
    /\ formatted = Idle
    /\ episode = [step |-> 0]

DefineIndices ==
    /\ last.op = "Animal3D"
    /\ \E r \in {define_indices_with(Self, SkeletonDefinitions[last.skeleton],
                                      csv_marker_names)} :
           /\ Commit(r.self)
           /\ last' = [op |-> "define_indices", skeleton |-> last.skeleton,
                       exc |-> r.exc]
    /\ UNCHANGED <<resolved, formatted, episode>>

NextSides == DefineIndices

SpecSides == InitSides /\ [][NextSides]_vars

----------------------------------------------------------------------------
(* Headers: get_csv_marker_names on header rows of three columns per marker *)

\* a header row names at most MaxHeader markers
MaxHeader == 3

tip_x2 == <<"t","i","p","_","x","2">>
tip2   == <<"t","i","p","2">>

\* the marker names a file may use
HeaderMarkers == {hood, tailpack, left_wingtip, tip_x2, tip2}

\* the header row of a file holding the given markers: name_x, name_y, name_z
HeaderRow(names) ==
    Tuple([i \in 1..(3 * Len(names)) |->
              names[((i - 1) \div 3) + 1]
                  \o <<"_", <<"x", "y", "z">>[((i - 1) % 3) + 1]>>])

\* load_csv at the point where the file is read and the names are not yet taken
InitHeader ==
    /\ SetInstance(NewAnimal3D)
    /\ last = [op |-> "Animal3D", exc |-> "none"]
    /\ \E n \in 1..MaxHeader :
           \E names \in {q \in [1..n -> HeaderMarkers] :
                             \A i, j \in 1..n : i # j => q[i] # q[j]} :
               resolved = [op |-> "pending", names |-> names,
                           header_row |-> HeaderRow(names)]
    /\ formatted = Idle
    /\ episode = [step |-> 0]

GetCsvMarkerNames ==
    /\ resolved.op = "pending"
    /\ csv_marker_names' = get_csv_marker_names(resolved.header_row)
    /\ resolved' = [resolved EXCEPT !.op = "get_csv_marker_names"]
    /\ UNCHANGED <<marker_index, fixed_marker_index, right_marker_index,
                   left_marker_index, polygons, shapeVars, last, formatted, episode>>

NextHeader == GetCsvMarkerNames

SpecHeader == InitHeader /\ [][NextHeader]_vars

----------------------------------------------------------------------------
(* Updates with arrays, transforms and resets, without any restore          *)

NextNoRestore ==
    \/ UpdateAnyShape
    \/ TransformPitchYawShift
    \/ ResetTransformation

SpecNoRestore == Init /\ [][NextNoRestore]_vars

----------------------------------------------------------------------------
(* The animation driver: restore, then per frame reset, update, transform   *)

MaxDriverFrames == 2

\* one frame of keypoints_frames: a (marker, 3) array
FramePoses == {UserArray(<<NumMoving, 3>>, v) : v \in 0..MaxPose}

DriverStart ==
    /\ episode.step = 0
    /\ \E r \in {restore_keypoints_to_average(Self)} :
           Call(r, [op |-> "restore_keypoints_to_average", exc |-> r.exc])
    /\ episode' = [step |-> 1, frames |-> 0, frame |-> Idle, earlier |-> Idle]
    /\ UNCHANGED <<resolved, formatted>>

DriverReset ==
    /\ episode.step = 1
    /\ episode.frames < MaxDriverFrames
    /\ \E r \in {reset_transformation(Self)} :
           Call(r, [op |-> "reset_transformation", exc |-> r.exc])
    /\ episode' = [episode EXCEPT !.step = 2]
    /\ UNCHANGED <<resolved, formatted>>

DriverUpdate ==
    /\ episode.step = 2
    /\ \E user_keypoints \in FramePoses :
        \E r \in {update_keypoints(Self, user_keypoints)} :
           /\ Call(r, [op |-> "update_keypoints", arg |-> user_keypoints,
                       exc |-> r.exc])
           /\ episode' = [episode EXCEPT !.step = 3, !.earlier = episode.frame,
                                         !.frame = [op |-> "frame",
                                                    keypoints |-> user_keypoints]]
    /\ UNCHANGED <<resolved, formatted>>

DriverTransform ==
    /\ episode.step = 3
    /\ \E bodypitch \in PitchDegrees, horzDist \in Dists, vertDist \in Dists :
        \E r \in {transform_keypoints(Self, bodypitch, horzDist, vertDist, 0)} :
           /\ Call(r, [op |-> "transform_keypoints", bodypitch |-> bodypitch,
                       horzDist |-> horzDist, vertDist |-> vertDist, yaw |-> 0,
                       exc |-> r.exc])
           /\ episode' = [episode EXCEPT
                             !.step = 1, !.frames = episode.frames + 1,
                             !.frame = [op |-> "frame",
                                        keypoints |-> episode.frame.keypoints,
                                        bodypitch |-> bodypitch,
                                        horzDist |-> horzDist,
                                        vertDist |-> vertDist]]
    /\ UNCHANGED <<resolved, formatted>>

NextDriver ==
    \/ episode.step = 0 /\ Next
    \/ DriverStart
    \/ DriverReset
    \/ DriverUpdate
    \/ DriverTransform

SpecDriver == Init /\ [][NextDriver]_vars

----------------------------------------------------------------------------
(* transform_keypoints on the reset pose, then again after other transforms *)

MaxRepeats == 2

RepeatReset ==
    /\ episode.step = 0
    /\ \E r \in {reset_transformation(Self)} :
           Call(r, [op |-> "reset_transformation", exc |-> r.exc])
    /\ episode' = [step |-> 1]
    /\ UNCHANGED <<resolved, formatted>>

RepeatOnce ==
    /\ episode.step = 1
    /\ \E bodypitch \in {0, 90}, yaw \in YawDegrees,
          horzDist \in {0, MaxDist}, vertDist \in {0} :
        \E r \in {transform_keypoints(Self, bodypitch, horzDist, vertDist, yaw)} :
           /\ Call(r, [op |-> "transform_keypoints", bodypitch |-> bodypitch,
                       horzDist |-> horzDist, vertDist |-> vertDist, yaw |-> yaw,
                       exc |-> r.exc])
           /\ episode' = [step |-> 2, calls |-> 0, differed |-> FALSE,
                          bodypitch |-> bodypitch, yaw |-> yaw,
                          horzDist |-> horzDist, vertDist |-> vertDist,
                          posed |-> r.self.heap[r.self.current_shape],
                          matrix |-> r.self.transformation_matrix,
                          origin |-> r.self.origin]
    /\ UNCHANGED <<resolved, formatted>>

RepeatOther ==
    /\ episode.step = 2
    /\ episode.calls < MaxRepeats
    /\ \E bodypitch \in {0, 90}, yaw \in {0},
          horzDist \in {0, MaxDist}, vertDist \in {0, MaxDist} :
        \E r \in {transform_keypoints(Self, bodypitch, horzDist, vertDist, yaw)} :
           /\ Call(r, [op |-> "transform_keypoints", bodypitch |-> bodypitch,
                       horzDist |-> horzDist, vertDist |-> vertDist, yaw |-> yaw,
                       exc |-> r.exc])
           /\ episode' = [episode EXCEPT
                             !.calls = episode.calls + 1,
                             !.differed = episode.differed
                                 \/ r.self.transformation_matrix # episode.matrix]
    /\ UNCHANGED <<resolved, formatted>>

RepeatAgain ==
    /\ episode.step = 2
    /\ \E r \in {transform_keypoints(Self, episode.bodypitch, episode.horzDist,
                                     episode.vertDist, episode.yaw)} :
           Call(r, [op |-> "transform_keypoints", bodypitch |-> episode.bodypitch,
                    horzDist |-> episode.horzDist, vertDist |-> episode.vertDist,
                    yaw |-> episode.yaw, exc |-> r.exc])
    /\ episode' = [episode EXCEPT !.step = 3]
    /\ UNCHANGED <<resolved, formatted>>

NextRepeat ==
    \/ episode.step = 0 /\ Next
    \/ RepeatReset
    \/ RepeatOnce
    \/ RepeatOther
    \/ RepeatAgain

SpecRepeat == Init /\ [][NextRepeat]_vars

----------------------------------------------------------------------------
(* Properties *)

\* the number of markers of a user array: its second-to-last dimension
MarkerCount(a) == Pad3(a.shape)[2]

\* the last call was update_keypoints with an array (not None)
UpdatedWithArray(label) == label.op = "update_keypoints" /\ label.arg # None

\* a point with its first coordinate negated
Mirrored(pt) == <<-pt[1], pt[2], pt[3]>>

\* C1: for every column order and every requested list of names all present
\* in it, get_marker_indices returns one index per requested name, in the
\* order of the request, each pointing at that name's column; so the rows
\* gathered through the four index lists of define_indices are the
\* coordinates the file holds for the markers, whatever the column order.
ResolutionFollowsRequest ==
    /\ (/\ resolved.op = "get_marker_indices"
        /\ Range(resolved.marker_subset) \subseteq Range(csv_marker_names))
       => /\ resolved.exc = "none"
          /\ Len(resolved.val) = Len(resolved.marker_subset)
          /\ \A k \in 1..Len(resolved.marker_subset) :
                 csv_marker_names[resolved.val[k] + 1] = resolved.marker_subset[k]
    /\ \A k \in 1..Len(marker_names) :
           PointAt(DefaultShape, 0, marker_index[k]) = TruePoint(marker_names[k])
    /\ \A k \in 1..Len(fixed_marker_names) :
           PointAt(DefaultShape, 0, fixed_marker_index[k])
               = TruePoint(fixed_marker_names[k])
    /\ \A k \in 1..Len(get_right_marker_names) :
           PointAt(DefaultShape, 0, right_marker_index[k])
               = TruePoint(get_right_marker_names[k])
    /\ \A k \in 1..Len(get_left_marker_names) :
           PointAt(DefaultShape, 0, left_marker_index[k])
               = TruePoint(get_left_marker_names[k])

\* C1 witness: [left, right] resolved against columns that start [right, left]
ResolvedAgainstSwappedColumns ==
    /\ resolved.op = "get_marker_indices"
    /\ resolved.marker_subset = <<left_wingtip, right_wingtip>>
    /\ csv_marker_names[1] = right_wingtip
    /\ csv_marker_names[2] = left_wingtip
    /\ resolved.val = <<1, 0>>

\* C2: update_keypoints with as many markers as there are right-side markers
\* (fewer than the moving markers) succeeds, and afterwards right_markers
\* holds the given points and every left marker is its right point mirrored.
OneSidedInputIsMirrored ==
    (/\ UpdatedWithArray(last)
     /\ Size(last.arg) # 0
     /\ LastDim(last.arg) = 3
     /\ MarkerCount(last.arg) = Len(right_marker_index)
     /\ MarkerCount(last.arg) < Len(marker_index))
    => /\ last.exc = "none"
       /\ right_markers.data = last.arg.data
       /\ \A k \in 1..Len(left_marker_index) :
              PointAt(left_markers, 0, k - 1)
                  = Mirrored(PointAt(right_markers, 0, k - 1))

\* C3: update_keypoints(p) with a full pose p, called directly after
\* restore_keypoints_to_average, leaves the markers accessor equal to p.
UpdateAfterRestoreShowsInput ==
    [][(/\ last.op = "restore_keypoints_to_average"
        /\ UpdatedWithArray(last')
        /\ MarkerCount(last'.arg) = Len(marker_index))
       => markers' = validate_keypoints(last'.arg).val]_vars

\* C4: after restore_keypoints_to_average the working pose equals the
\* reference pose and origin is (0,0,0), whatever calls came before.
RestoreYieldsDefault ==
    last.op = "restore_keypoints_to_average"
    => /\ CurrentShape = DefaultShape
       /\ origin = <<0, 0, 0>>

\* C4 witness: a restore called while a translation and a rotation were in place
RestoredAfterTransform ==
    /\ last.op = "restore_keypoints_to_average"
    /\ transformation_matrix[2][4] # 0
    /\ transformation_matrix[2][2] # 1

\* C5: after transform(180); reset; transform(180) the working pose is the
\* pose that existed before the first rotation.
PitchTwiceReturnsToStart ==
    episode.step = 3 => CurrentShape = episode.before

\* C5 amended: after transform(180); reset; transform(180) the working pose is
\* the pose the first call produced, the baseline pitched by 180 degrees once:
\* every baseline point (x, y, z) is at (x, -y, -z).
PitchTwiceIsPitchOnce ==
    episode.step = 3
    => /\ CurrentShape = episode.first
       /\ CurrentShape.shape = UntransformedShape.shape
       /\ \A k \in 0..(UntransformedShape.shape[2] - 1) :
              LET pt == PointAt(UntransformedShape, 0, k)
              IN  PointAt(CurrentShape, 0, k) = <<pt[1], -pt[2], -pt[3]>>

\* C5 witness: the sequence has run and the pose differs from the one before it
PitchedTwiceAwayFromStart ==
    /\ episode.step = 3
    /\ CurrentShape # episode.before

\* C6: in every reachable state, in particular after reset_transformation and
\* after restore_keypoints_to_average, the three buffers are three distinct
\* array objects.
BuffersNeverAliased ==
    Cardinality({default_shape, current_shape, untransformed_shape}) = 3

\* C7: update_keypoints with an empty array or an array whose last dimension
\* is not 3 raises ValueError and leaves the buffers, the matrix and the
\* origin as they were.
MalformedInputRejectedUnchanged ==
    [][(/\ UpdatedWithArray(last')
        /\ (Size(last'.arg) = 0 \/ LastDim(last'.arg) # 3))
       => /\ last'.exc = "ValueError"
          /\ UNCHANGED shapeVars]_vars

\* C7 witness: a two-coordinate array was rejected while a transform was in place
TwoCoordinateInputRejected ==
    /\ UpdatedWithArray(last)
    /\ LastDim(last.arg) = 2
    /\ last.exc = "ValueError"
    /\ transformation_matrix # Identity4
    /\ CurrentShape # UntransformedShape

\* C8: update_keypoints with a marker count that is neither the moving-marker
\* count nor the right-side count raises an error and writes nothing.
WrongCountRejectedUnchanged ==
    [][(/\ UpdatedWithArray(last')
        /\ Size(last'.arg) # 0
        /\ LastDim(last'.arg) = 3
        /\ MarkerCount(last'.arg) \notin {Len(marker_index), Len(right_marker_index)})
       => /\ last'.exc # "none"
          /\ UNCHANGED shapeVars]_vars

\* what restore_keypoints_to_average does to the state it is called in
RestoreEffect ==
    /\ CurrentShape' = DefaultShape
    /\ UntransformedShape' = DefaultShape
    /\ DefaultShape' = DefaultShape
    /\ origin' = <<0, 0, 0>>
    /\ transformation_matrix' = transformation_matrix
    /\ Cardinality({default_shape', current_shape', untransformed_shape'}) = 3

\* C9: update_keypoints(None) and restore_keypoints_to_average() have the same
\* effect on the state they are called in: both leave copies of the reference
\* pose in current_shape and untransformed_shape, origin (0,0,0) and the
\* transformation matrix as it was.
UpdateNoneIsRestore ==
    [][(\/ last'.op = "restore_keypoints_to_average"
        \/ (last'.op = "update_keypoints" /\ last'.arg = None))
       => (last'.exc = "none" /\ RestoreEffect)]_vars

\* C9 witness: update_keypoints(None) called on a replaced, transformed pose
UpdatedWithNoneAfterTransform ==
    /\ last.op = "update_keypoints"
    /\ last.arg = None
    /\ transformation_matrix # Identity4

\* C10: mirror_keypoints on an array of shape (frames, N, 3) returns an array
\* of shape (frames, 2N, 3) whose element 2k is point k with its first
\* coordinate negated and whose element 2k+1 is point k, in every frame, and
\* it leaves its argument as it was.
MirrorInterleavesLeftRight ==
    (formatted.op = "mirror_keypoints" /\ Len(formatted.keypoints.shape) = 3)
    => /\ formatted.exc = "none"
       /\ formatted.result.shape
              = <<formatted.keypoints.shape[1], 2 * formatted.keypoints.shape[2], 3>>
       /\ Len(formatted.result.data) = Prod(formatted.result.shape)
       /\ \A f \in 0..(formatted.keypoints.shape[1] - 1) :
              \A k \in 0..(formatted.keypoints.shape[2] - 1) :
                  /\ PointAt(formatted.result, f, 2 * k)
                         = Mirrored(PointAt(formatted.keypoints, f, k))
                  /\ PointAt(formatted.result, f, 2 * k + 1)
                         = PointAt(formatted.keypoints, f, k)
       /\ formatted.after = formatted.keypoints

\* C10 witness: two frames of two distinct points were mirrored
MirroredTwoFrames ==
    /\ formatted.op = "mirror_keypoints"
    /\ formatted.keypoints.shape = <<2, 2, 3>>
    /\ PointAt(formatted.keypoints, 0, 0) # PointAt(formatted.keypoints, 0, 1)
    /\ PointAt(formatted.keypoints, 0, 0) # PointAt(formatted.keypoints, 1, 0)
    /\ formatted.exc = "none"

\* the last call was transform_keypoints
Transformed(label) == label.op = "transform_keypoints"

\* the rotation of a point about the z axis and about the x axis
Rz(degrees, pt) ==
    <<Cos(degrees) * pt[1] - Sin(degrees) * pt[2],
      Sin(degrees) * pt[1] + Cos(degrees) * pt[2], pt[3]>>
Rx(degrees, pt) ==
    <<pt[1], Cos(degrees) * pt[2] - Sin(degrees) * pt[3],
      Sin(degrees) * pt[2] + Cos(degrees) * pt[3]>>

\* the marker positions of a buffer of shape (1, markers, 3)
MarkerRange(a) == 0..(a.shape[2] - 1)

\* C11: transform_keypoints leaves untransformed_shape and default_shape as
\* they were, whatever its parameters, and the reset_transformation that
\* follows makes current_shape equal to untransformed_shape again, the
\* matrix the identity and origin (0,0,0).
TransformKeepsBaselineResetReturns ==
    /\ (episode.step >= 1 /\ episode.transformed)
       => /\ UntransformedShape = episode.untransformed
          /\ DefaultShape = episode.default
    /\ (episode.step = 1) => last.exc = "none"
    /\ (episode.step = 2 /\ episode.transformed)
       => /\ last.exc = "none"
          /\ CurrentShape = UntransformedShape
          /\ transformation_matrix = Identity4
          /\ origin = <<0, 0, 0>>

\* C11 witness: a replaced pose was moved by the transform and then reset
TransformedThenReset ==
    /\ episode.step = 2
    /\ episode.transformed
    /\ episode.posed # CurrentShape
    /\ UntransformedShape # DefaultShape

\* C12: reset_transformation followed by transform_keypoints with all four
\* parameters zero leaves current_shape equal to untransformed_shape, from
\* whatever state the reset was called in.
IdentityPoseLaw ==
    episode.step = 3
    => /\ last.exc = "none"
       /\ CurrentShape = UntransformedShape
       /\ UntransformedShape = episode.untransformed

\* C12 witness: the law applied where the working pose had left the baseline
IdentityPoseAfterDrift ==
    /\ episode.step = 3
    /\ ~episode.transformed
    /\ episode.posed # CurrentShape

\* C13: transform_keypoints maps every point p of untransformed_shape to
\* Rx(pitch) * Rz(yaw) * p + (0, horzDist, vertDist).
ComposedPoseIsTranslatePitchYaw ==
    Transformed(last)
    => /\ last.exc = "none"
       /\ CurrentShape.shape = UntransformedShape.shape
       /\ \A k \in MarkerRange(UntransformedShape) :
              LET q == Rx(last.bodypitch, Rz(last.yaw, PointAt(UntransformedShape, 0, k)))
              IN  PointAt(CurrentShape, 0, k)
                      = <<q[1], q[2] + last.horzDist, q[3] + last.vertDist>>

\* C13 witness: a replaced pose pitched, yawed and offset along both axes
PitchedYawedAndOffset ==
    /\ Transformed(last)
    /\ last.bodypitch = 90
    /\ last.yaw = 90
    /\ last.horzDist = MaxDist
    /\ last.vertDist = MaxDist
    /\ UntransformedShape # DefaultShape

\* C14: with pitch and both offsets zero, transform_keypoints(yaw=90) sends
\* every point (x, y, z) to (-y, x, z); (1,0,0) goes to (0,1,0).
YawQuarterTurn ==
    (/\ Transformed(last)
     /\ last.yaw = 90
     /\ last.bodypitch = 0
     /\ last.horzDist = 0
     /\ last.vertDist = 0)
    => \A k \in MarkerRange(UntransformedShape) :
           LET pt == PointAt(UntransformedShape, 0, k)
           IN  /\ PointAt(CurrentShape, 0, k) = <<-pt[2], pt[1], pt[3]>>
               /\ pt = <<1, 0, 0>> => PointAt(CurrentShape, 0, k) = <<0, 1, 0>>

\* C14 witness: the point (1,0,0) was yawed by 90 degrees
UnitPointYawed ==
    /\ Transformed(last)
    /\ last.yaw = 90
    /\ last.bodypitch = 0
    /\ last.horzDist = 0
    /\ last.vertDist = 0
    /\ \E k \in MarkerRange(UntransformedShape) :
           /\ PointAt(UntransformedShape, 0, k) = <<1, 0, 0>>
           /\ PointAt(CurrentShape, 0, k) = <<0, 1, 0>>

\* C19: after transform_keypoints(horzDist=h, vertDist=v) with zero pitch and
\* yaw every point of current_shape is the point of untransformed_shape with
\* the second coordinate increased by h and the third by v, the first
\* coordinate untouched, and origin is (0, h, v) whatever it was before.
TranslationSparesFirstAxis ==
    [][(/\ Transformed(last')
        /\ last'.bodypitch = 0
        /\ last'.yaw = 0)
       => /\ CurrentShape'.shape = UntransformedShape'.shape
          /\ \A k \in MarkerRange(UntransformedShape') :
                 LET pt == PointAt(UntransformedShape', 0, k)
                 IN  PointAt(CurrentShape', 0, k)
                         = <<pt[1], pt[2] + last'.horzDist, pt[3] + last'.vertDist>>
          /\ origin' = <<0, last'.horzDist, last'.vertDist>>]_vars

\* C19 witness: a replaced pose offset along both axes, without rotation
OffsetAlongBothAxes ==
    /\ Transformed(last)
    /\ last.bodypitch = 0
    /\ last.yaw = 0
    /\ last.horzDist = MaxDist
    /\ last.vertDist = MaxDist
    /\ origin = <<0, MaxDist, MaxDist>>
    /\ UntransformedShape # DefaultShape

\* C15: after loading with Hawk3D or Spider3D and after every later update,
\* transform, reset or restore, default_shape, current_shape and
\* untransformed_shape each hold one frame of
\* len(marker_names) + len(fixed_marker_names) markers.
BuffersHoldOneFullFrame ==
    \A a \in {DefaultShape, CurrentShape, UntransformedShape} :
        a.shape = <<1, Len(marker_names) + Len(fixed_marker_names), 3>>

\* C16: update_keypoints with an array of shape (marker, 3), (1, marker, 3)
\* or (frames, marker, 3), marker being the moving-marker count, completes
\* without error.
FullCountPoseAccepted ==
    (/\ UpdatedWithArray(last)
     /\ Len(last.arg.shape) \in {2, 3}
     /\ Size(last.arg) # 0
     /\ LastDim(last.arg) = 3
     /\ MarkerCount(last.arg) = Len(marker_index))
    => last.exc = "none"

\* the first requested name that is not a column
FirstAbsent(marker_subset, csv_names) ==
    marker_subset[CHOOSE k \in 1..Len(marker_subset) :
                     /\ marker_subset[k] \notin Range(csv_names)
                     /\ \A j \in 1..(k - 1) : marker_subset[j] \in Range(csv_names)]

\* C17: polygons[section] is get_marker_indices(body_sections[section],
\* csv_marker_names) for every body section, and get_polygon_coords(section)
\* returns the rows of frame 0 of current_shape at those indices, in that
\* order, in whatever state it is called.
PolygonCoordsFollowWorkingPose ==
    /\ DOMAIN polygons = Range(SectionNames)
    /\ \A section \in Range(SectionNames) :
           /\ polygons[section]
                  = get_marker_indices(body_sections[section], csv_marker_names).val
           /\ Len(polygons[section]) = Len(body_sections[section])
           /\ \A k \in 1..Len(body_sections[section]) :
                  csv_marker_names[polygons[section][k] + 1] = body_sections[section][k]
    /\ (last.op = "get_polygon_coords" /\ last.section_name \in Range(SectionNames))
       => /\ last.exc = "none"
          /\ last.val.shape = <<Len(polygons[last.section_name]), 3>>
          /\ \A k \in 1..Len(polygons[last.section_name]) :
                 SubSeq(last.val.data, 3 * k - 2, 3 * k)
                     = PointAt(CurrentShape, 0, polygons[last.section_name][k])

\* C17 witness: the tail polygon read from a replaced and transformed pose
TailReadFromTransformedPose ==
    /\ last.op = "get_polygon_coords"
    /\ last.section_name = "tail"
    /\ polygons["tail"] = <<2, 1>>
    /\ CurrentShape # UntransformedShape
    /\ UntransformedShape # DefaultShape

\* C18: get_marker_indices raises at the first requested name that is not a
\* column and returns no index list, get_polygon_coords raises ValueError for
\* a name that is not a body section, and neither failure changes a buffer,
\* the matrix or the origin.
FailedLookupsChangeNothing ==
    [][/\ (/\ last'.op = "get_marker_indices"
           /\ last' # last
           /\ ~(Range(last'.marker_subset) \subseteq Range(csv_marker_names)))
          => /\ last'.exc = "ValueError"
             /\ last'.val = FirstAbsent(last'.marker_subset, csv_marker_names)
             /\ UNCHANGED <<indexVars, shapeVars>>
       /\ (/\ last'.op = "get_polygon_coords"
           /\ last' # last
           /\ last'.section_name \notin Range(SectionNames))
          => /\ last'.exc = "ValueError"
             /\ last'.val = None
             /\ UNCHANGED <<indexVars, shapeVars>>]_vars

\* C18 witness: a request failed at its second name while a transform was in place
LookupFailedAtSecondName ==
    /\ last.op = "get_marker_indices"
    /\ last.marker_subset = <<hood, tailpack>>
    /\ last.exc = "ValueError"
    /\ transformation_matrix # Identity4
    /\ CurrentShape # UntransformedShape

\* the sum of component c of a sequence of pairs
RECURSIVE SumOf(_, _)
SumOf(pairs, c) == IF Len(pairs) = 0 THEN 0 ELSE Head(pairs)[c] + SumOf(Tail(pairs), c)

\* C20: origin is (0, h1 + h2 + ..., v1 + v2 + ...) over the update_translation
\* calls made since the last reset_transformation or
\* restore_keypoints_to_average, and (0,0,0) right after either of those.
OriginAccumulates ==
    /\ origin = <<0, SumOf(episode.calls, 1), SumOf(episode.calls, 2)>>
    /\ last.op \in {"reset_transformation", "restore_keypoints_to_average"}
       => origin = <<0, 0, 0>>

\* C20 witness: two translations in a row, with a rotation in between
TranslatedTwice ==
    /\ last.op = "update_translation"
    /\ episode.calls = <<<<MaxDist, 0>>, <<MaxDist, MaxDist>>>>
    /\ origin = <<0, 2 * MaxDist, MaxDist>>
    /\ transformation_matrix[2][2] = 0

\* C21: for the hawk and for the spider skeleton definition the right-side
\* and left-side names are disjoint and together are marker_names, so the
\* right, left and fixed index lists together have as many entries as there
\* are marker names, moving and fixed.
SidesPartitionMarkers ==
    last.op = "define_indices"
    => LET sk == SkeletonDefinitions[last.skeleton]
       IN  /\ last.exc = "none"
           /\ Range(sk.get_right_marker_names) \cap Range(sk.get_left_marker_names) = {}
           /\ Range(sk.get_right_marker_names) \cup Range(sk.get_left_marker_names)
                  = Range(sk.marker_names)
           /\ Len(right_marker_index) + Len(left_marker_index) + Len(fixed_marker_index)
                  = Len(sk.marker_names) + Len(sk.fixed_marker_names)

\* C22: get_csv_marker_names returns each marker name once, in order of first
\* appearance, a name being the column name without its trailing _x, _y or
\* _z; for a header of three suffixed columns per marker the k-th name
\* returned is the marker of row k of the keypoint table.
HeaderNamesAreMarkers ==
    resolved.op = "get_csv_marker_names" => csv_marker_names = resolved.names

\* the last call was update_keypoints with an array and returned normally
UpdateSucceeded(label) == UpdatedWithArray(label) /\ label.exc = "none"

\* buffer a is the matrix M applied to every point of buffer b
IsImageOf(a, M, b) ==
    /\ a.shape = b.shape
    /\ \A k \in MarkerRange(b) : PointAt(a, 0, k) = TransformPoint(M, PointAt(b, 0, k))

\* C23: default_shape holds the coordinates of the file in every reachable
\* state: no update_keypoints, transform_keypoints, reset_transformation,
\* restore_keypoints_to_average or get_polygon_coords call changes them.
DefaultShapeNeverChanges ==
    /\ DefaultShape.shape = <<1, Len(csv_marker_names), 3>>
    /\ \A k \in 1..Len(csv_marker_names) :
           PointAt(DefaultShape, 0, k - 1) = TruePoint(csv_marker_names[k])

\* C23 witness: a pose written over a working pose that a restore had set,
\* with a transformation in place
UpdatedOverRestoredPose ==
    /\ UpdateSucceeded(last)
    /\ transformation_matrix # Identity4
    /\ Gather(UntransformedShape, fixed_marker_index)
           = Gather(DefaultShape, fixed_marker_index)
    /\ UntransformedShape # DefaultShape

\* C24: the fixed-marker rows of untransformed_shape are the fixed-marker
\* rows of default_shape in every reachable state.
FixedMarkersStayAtDefault ==
    Gather(UntransformedShape, fixed_marker_index)
        = Gather(DefaultShape, fixed_marker_index)

UpdateScattersSnapshotsTransforms ==
    UpdateSucceeded(last)
    => /\ Gather(UntransformedShape, marker_index) = validate_keypoints(last.arg).val
       /\ IsImageOf(CurrentShape, transformation_matrix, UntransformedShape)
       /\ (CurrentShape = UntransformedShape) <=> (transformation_matrix = Identity4)

\* C26 witness: an update made while a rotation and an offset were in place
UpdatedUnderRotationAndOffset ==
    /\ UpdateSucceeded(last)
    /\ transformation_matrix[2][4] # 0
    /\ transformation_matrix[2][2] # 1
    /\ CurrentShape # UntransformedShape

\* C27: after update the state is Updated (working pose equal to baseline,
\* identity matrix), after transform_keypoints it is Transformed (working
\* pose the matrix applied to the baseline), after reset it is Updated, and
\* after restore it is Default (working pose, baseline and reference equal,
\* identity matrix, origin zero).
PoseStateMachine ==
    /\ UpdateSucceeded(last)
       => (CurrentShape = UntransformedShape /\ transformation_matrix = Identity4)
    /\ Transformed(last)
       => IsImageOf(CurrentShape, transformation_matrix, UntransformedShape)
    /\ last.op = "reset_transformation"
       => (CurrentShape = UntransformedShape /\ transformation_matrix = Identity4)
    /\ (last.op = "restore_keypoints_to_average"
        \/ (last.op = "update_keypoints" /\ last.arg = None))
       => /\ CurrentShape = DefaultShape
          /\ UntransformedShape = DefaultShape
          /\ transformation_matrix = Identity4
          /\ origin = <<0, 0, 0>>

\* C30: without restore_keypoints_to_average, after every update_keypoints,
\* transform_keypoints and reset_transformation call current_shape is
\* transformation_matrix applied to untransformed_shape, and after
\* transform_keypoints origin is the image of (0,0,0) under the matrix.
PoseIsMatrixOfBaseline ==
    /\ IsImageOf(CurrentShape, transformation_matrix, UntransformedShape)
    /\ Transformed(last)
       => origin = TransformPoint(transformation_matrix, <<0, 0, 0>>)

\* C30 witness: a replaced pose yawed and offset
YawedAndOffsetWithoutRestore ==
    /\ Transformed(last)
    /\ last.yaw = 90
    /\ last.horzDist = MaxDist
    /\ origin = <<0, MaxDist, 0>>
    /\ UntransformedShape # DefaultShape

\* C28: once the driver has started from restore_keypoints_to_average(),
\* after every frame reset_transformation(); update_keypoints(p);
\* transform_keypoints(pitch, h, v) the baseline is the reference pose with p
\* at the moving markers, the working pose is that baseline pitched and
\* offset by this frame's parameters, and origin is (0, h, v): nothing
\* depends on earlier frames.
DriverFrameIsHistoryIndependent ==
    (episode.step = 1 /\ episode.frames > 0)
    => /\ Gather(UntransformedShape, fixed_marker_index)
              = Gather(DefaultShape, fixed_marker_index)
       /\ Gather(UntransformedShape, marker_index)
              = validate_keypoints(episode.frame.keypoints).val
       /\ CurrentShape.shape = UntransformedShape.shape
       /\ \A k \in MarkerRange(UntransformedShape) :
              PointAt(CurrentShape, 0, k)
                  = LET pt == Rx(episode.frame.bodypitch,
                                 PointAt(UntransformedShape, 0, k))
                    IN  <<pt[1], pt[2] + episode.frame.horzDist,
                          pt[3] + episode.frame.vertDist>>
       /\ origin = <<0, episode.frame.horzDist, episode.frame.vertDist>>

\* C28 witness: a second frame with another pose after a pitched, offset
\* first frame
SecondFrameAfterDifferentFirst ==
    /\ episode.step = 1
    /\ episode.frames = 2
    /\ episode.earlier.keypoints # episode.frame.keypoints
    /\ episode.earlier.bodypitch = 90
    /\ episode.earlier.horzDist = MaxDist
    /\ episode.frame.bodypitch = 0
    /\ episode.frame.horzDist = 0

\* C29: transform_keypoints(a) after any number of earlier transform_keypoints
\* calls, with no update in between, yields the current_shape,
\* transformation_matrix and origin of transform_keypoints(a) called once on
\* the reset pose.
TransformIsNotCumulative ==
    episode.step = 3
    => /\ CurrentShape = episode.posed
       /\ transformation_matrix = episode.matrix
       /\ origin = episode.origin

\* C29 witness: the same arguments again after two transforms, one of them
\* with other arguments
RepeatedAfterOtherTransforms ==
    /\ episode.step = 3
    /\ episode.calls = MaxRepeats
    /\ episode.differed
    /\ episode.bodypitch = 90
    /\ episode.horzDist = MaxDist

====
